---- MODULE Spec2Model ----
(***************************************************************************)
(* Model of the IS31FL3741 LED-matrix driver                               *)
(* (app/drivers/led_strip/is31fl3741/is31fl3741.c).                        *)
(*                                                                         *)
(* The driver is single-threaded and synchronous.  Every external          *)
(* transaction (I2C register write, I2C burst write, GPIO configure, GPIO  *)
(* set) is one step of the model and may succeed or fail.  `log` records   *)
(* the transactions of the call in progress (or of the last call, once it  *)
(* has returned), `ret` the value the last call returned.  `ready` is the  *)
(* device framework's record that the last is31fl3741_init returned 0;     *)
(* the framework hands the device to callers only while it holds.          *)
(* `chip` is the controller at the other end of the bus (its selected page *)
(* and the contents of its two PWM pages); it is followed only under       *)
(* SpecChip.  `fault` records that some access of the driver to the        *)
(* channel-index map, to the device buffer or to a caller's array left the *)
(* object it was made on.                                                  *)
(***************************************************************************)
EXTENDS Integers, Sequences, FiniteSets

VARIABLES config, data, ready, pc, call, spret, ret, log, chip, fault

vars == <<config, data, ready, pc, call, spret, ret, log, chip, fault>>

(***************************************************************************)
(* Program constants.                                                      *)
(***************************************************************************)
IS31FL3741_BUFFER_SIZE == 39 * 9
IS31FL3741_BUFFER_PAGE_BREAK == 180
IS31FL3741_REG_PS == 253
IS31FL3741_REG_PSWL == 254
IS31FL3741_PSWL_ENABLE == 197
IS31FL3741_PAGE_PWM_A == 0
IS31FL3741_PAGE_PWM_B == 1
IS31FL3741_PAGE_SCALING_A == 2
IS31FL3741_PAGE_SCALING_B == 3
IS31FL3741_PAGE_FUNCTION == 4
REG_RESET == 63
RESET_VALUE == 174
REG_MODE == 0
REG_GCC == 1
SCALING_B_LEN == 171
ENOMEM == 12
EIO == 5
ENODEV == 19
\* size_t is 32 bits wide on the driver's targets; it is handled as two
\* 16-bit halves so that no intermediate value leaves the checker's integers.
SIZE_HALF == 65536

NULL == "NULL"

(***************************************************************************)
(* Bounds of the model (not program constants).                            *)
(***************************************************************************)
\* number of distinct pixel / raw-channel input patterns a caller may submit
MaxPattern == 2
\* number of driver calls a followed controller is followed through
MaxChipCalls == 3

(***************************************************************************)
(* Bit arithmetic on non-negative integers.                                *)
(***************************************************************************)
RECURSIVE BitOr(_, _)
BitOr(a, b) ==
    IF a = 0 THEN b
    ELSE IF b = 0 THEN a
    ELSE (IF a % 2 = 1 \/ b % 2 = 1 THEN 1 ELSE 0) + 2 * BitOr(a \div 2, b \div 2)

Shl(a, k) == a * (2 ^ k)

U8(x) == x % 256

(***************************************************************************)
(* Per-instance configuration (devicetree properties).                     *)
(***************************************************************************)
Offsets == 0 .. (IS31FL3741_BUFFER_SIZE - 1)
Bytes == 0 .. 255

\* #define IS31FL3741_GCC(idx)
IS31FL3741_GCC(r_ext, led_max_current) ==
    (r_ext * led_max_current * 256 * 256) \div (383 * 255)

IdentityMap == [j \in Offsets |-> j]
StrideMap == [j \in Offsets |-> (j * 7 + 5) % IS31FL3741_BUFFER_SIZE]

IdentityGamma == [v \in Bytes |-> v]
QuadraticGamma == [v \in Bytes |-> (v * v) \div 255]

\* one instance of IS31FL3741_DEVICE(idx); r_ext and led_max_current are the
\* devicetree properties .gcc (a uint8_t) is initialised from
DeviceConfig(map, gamma, sws, r_ext, max_current, sr, sg, sb) ==
    [ px_buffer_size |-> IS31FL3741_BUFFER_SIZE,
      r_ext          |-> r_ext,
      led_max_current |-> max_current,
      gcc            |-> U8(IS31FL3741_GCC(r_ext, max_current)),
      sws            |-> U8(sws),
      rgb_map        |-> map,
      gamma          |-> gamma,
      scaling_red    |-> U8(sr),
      scaling_green  |-> U8(sg),
      scaling_blue   |-> U8(sb) ]

Configs ==
    { DeviceConfig(IdentityMap, IdentityGamma, 0, 1, 5, 128, 64, 32),
      DeviceConfig(StrideMap, QuadraticGamma, 2, 10, 39, 255, 160, 60) }

(***************************************************************************)
(* Inputs of the API calls.                                                *)
(***************************************************************************)
Patterns == 1 .. MaxPattern

\* pixels[i] of the pixel array a caller passes; pattern 1 is the constant
\* colour (255, 128, 0)
Pixel(pat, i) ==
    IF pat = 1
    THEN [r |-> 255, g |-> 128, b |-> 0]
    ELSE [r |-> (7 * pat * i + pat) % 256,
          g |-> (3 * i + 2 * pat) % 256,
          b |-> (255 - ((i + pat) % 256))]

\* channels[k] of the raw channel array a caller passes
Raw(pat, k) == (pat * (2 * k + 1) + 1) % 256

MaxPixels == IS31FL3741_BUFFER_SIZE \div 3

\* a pixel count whose product with 3 wraps around to 2 in 32 bits
WrapPixels == 21845 * SIZE_HALF + 21846

NumPixelsChoices == {0, 2, MaxPixels, MaxPixels + 1, WrapPixels}

NumChannelsChoices ==
    {0, 1, IS31FL3741_BUFFER_PAGE_BREAK, IS31FL3741_BUFFER_PAGE_BREAK + 1,
     IS31FL3741_BUFFER_SIZE, IS31FL3741_BUFFER_SIZE + 1}

(***************************************************************************)
(* Transactions on the bus and on the pin.                                 *)
(***************************************************************************)
Op(kind, addr, value, bytes, ok) ==
    [kind |-> kind, addr |-> addr, value |-> value, data |-> bytes, ok |-> ok]

\* is31fl3741_reg_write: the transaction issued, and the value returned
RegWrite(addr, value, ok) == Op("reg", addr, U8(value), <<>>, ok)

\* is31fl3741_reg_burst_write: the transaction issued
BurstWrite(start_addr, bytes, ok) == Op("burst", start_addr, 0, bytes, ok)

PinOp(kind, ok) == Op(kind, 0, 0, <<>>, ok)

\* both bus helpers map a bus failure to -EIO
IoResult(ok) == IF ok THEN 0 ELSE -EIO

\* buffer[start], ..., buffer[start + len - 1] as handed to a burst write
Slice(buffer, start, len) == [k \in 1 .. len |-> buffer[start + k - 1]]

Idle == [site |-> "idle", phase |-> "idle"]

At(site, phase) == [site |-> site, phase |-> phase]

\* the page each call site of is31fl3741_set_page passes
SitePage(site) ==
    CASE site = "upd_a"     -> IS31FL3741_PAGE_PWM_A
      [] site = "upd_b"     -> IS31FL3741_PAGE_PWM_B
      [] site = "init_fn1"  -> IS31FL3741_PAGE_FUNCTION
      [] site = "init_fn2"  -> IS31FL3741_PAGE_FUNCTION
      [] site = "init_sc_a" -> IS31FL3741_PAGE_SCALING_A
      [] site = "init_sc_b" -> IS31FL3741_PAGE_SCALING_B

SetPageSites == {"upd_a", "upd_b", "init_fn1", "init_fn2", "init_sc_a", "init_sc_b"}

Return(r) == ret' = r /\ pc' = Idle /\ spret' = 0

\* a return of is31fl3741_init: the framework records whether it succeeded
InitReturn(r) == Return(r) /\ ready' = (r = 0)

\* the controller is not followed
ChipUntracked ==
    [tracked |-> FALSE, calls |-> 0, unlocked |-> FALSE, page |-> IS31FL3741_PAGE_PWM_A,
     pwm_a |-> <<>>, pwm_b |-> <<>>]

TypeOK ==
    /\ config \in Configs
    /\ data.px_buffer \in [Offsets -> Bytes]
    /\ ret \in {0, -EIO, -ENOMEM, -ENODEV}
    /\ spret \in {0, -EIO}
    /\ ready \in BOOLEAN
    /\ fault \in BOOLEAN
    /\ chip.tracked \in BOOLEAN
    /\ chip.page \in 0 .. 255

Init ==
    /\ config \in Configs
    /\ ready = FALSE
    /\ data = [i2c |-> NULL, gpio |-> NULL, px_buffer |-> [k \in Offsets |-> 0]]
    /\ pc = Idle
    /\ call = [op |-> "none", n |-> 0, pat |-> 0]
    /\ spret = 0
    /\ ret = 0
    /\ log = <<>>
    /\ chip = ChipUntracked
    /\ fault = FALSE

(***************************************************************************)
(* Pure helpers of the driver.                                             *)
(***************************************************************************)
\* size_mul_overflow(a, b, &result) on a 32-bit size_t
size_mul_overflow(a, b) ==
    LET lo == (a % SIZE_HALF) * b
        hi == (a \div SIZE_HALF) * b + (lo \div SIZE_HALF)
    IN  [overflow |-> hi >= SIZE_HALF,
         result   |-> (hi % SIZE_HALF) * SIZE_HALF + (lo % SIZE_HALF)]

\* variant: compares the pixel count, not the byte count, with the capacity
num_pixels_ok_CountsPixels(cfg, num_pixels) ==
    LET m == size_mul_overflow(num_pixels, 3)
    IN  ~m.overflow /\ (num_pixels <= cfg.px_buffer_size)

num_pixels_ok(cfg, num_pixels) ==
    LET m == size_mul_overflow(num_pixels, 3)
    IN  ~m.overflow /\ (m.result <= cfg.px_buffer_size)

\* rgb_map[j]; the guards of the callers keep j inside the table
MapAt(cfg, j) == IF j \in DOMAIN cfg.rgb_map THEN cfg.rgb_map[j] ELSE 0

\* px_buffer[off] = v
Store(buffer, off, v) ==
    IF off \in DOMAIN buffer THEN [buffer EXCEPT ![off] = v] ELSE buffer

\* variant: stores the raw intensities, without the gamma lookup
MapPixel_NoGamma(cfg, buffer, px, j) ==
    LET b1 == Store(buffer, MapAt(cfg, j), px.r)
        b2 == Store(b1, MapAt(cfg, j + 1), px.g)
    IN  Store(b2, MapAt(cfg, j + 2), px.b)

\* one iteration of the while loop of is31fl3741_strip_update_rgb
MapPixel(cfg, buffer, px, j) ==
    LET b1 == Store(buffer, MapAt(cfg, j), cfg.gamma[px.r])
        b2 == Store(b1, MapAt(cfg, j + 1), cfg.gamma[px.g])
    IN  Store(b2, MapAt(cfg, j + 2), cfg.gamma[px.b])

\* the while loop of is31fl3741_strip_update_rgb: pixels lo, lo + 1, ...,
\* hi - 1 in ascending order, pixel i consuming rgb_map[3i .. 3i + 2]
\* (the range is split in halves only to keep the evaluation shallow)
RECURSIVE MapPixels(_, _, _, _, _)
MapPixels(cfg, buffer, pat, lo, hi) ==
    IF hi <= lo \/ DOMAIN buffer = {} THEN buffer
    ELSE IF hi = lo + 1 THEN MapPixel(cfg, buffer, Pixel(pat, lo), 3 * lo)
    ELSE LET mid == (lo + hi) \div 2
         IN  MapPixels(cfg, MapPixels(cfg, buffer, pat, lo, mid), pat, mid, hi)

\* variant: the green and the blue scaling value change places
ScaleTriple_GreenBlueSwapped(cfg, buffer, i) ==
    LET b1 == Store(buffer, MapAt(cfg, i), cfg.scaling_red)
        b2 == Store(b1, MapAt(cfg, i + 1), cfg.scaling_blue)
    IN  Store(b2, MapAt(cfg, i + 2), cfg.scaling_green)

\* one iteration of the scaling loop of is31fl3741_init
ScaleTriple(cfg, buffer, i) ==
    LET b1 == Store(buffer, MapAt(cfg, i), cfg.scaling_red)
        b2 == Store(b1, MapAt(cfg, i + 1), cfg.scaling_green)
    IN  Store(b2, MapAt(cfg, i + 2), cfg.scaling_blue)

\* the scaling loop of is31fl3741_init, for (i = 0; i < px_buffer_size; i += 3):
\* iterations lo, ..., hi - 1 in ascending order, iteration t having i = 3t
RECURSIVE FillScaling(_, _, _, _)
FillScaling(cfg, buffer, lo, hi) ==
    IF hi <= lo \/ DOMAIN buffer = {} THEN buffer
    ELSE IF hi = lo + 1 THEN ScaleTriple(cfg, buffer, 3 * lo)
    ELSE LET mid == (lo + hi) \div 2
         IN  FillScaling(cfg, FillScaling(cfg, buffer, lo, mid), mid, hi)

\* number of iterations of the scaling loop
ScalingIterations(cfg) == (cfg.px_buffer_size + 2) \div 3

\* variant: the buffer is left as the scaling loop filled it
ZeroBuffer_Skip(cfg, buffer) == buffer

\* variant: the zeroing loop stops one byte early
ZeroBuffer_StopsEarly(cfg, buffer) ==
    [k \in DOMAIN buffer |-> IF k < cfg.px_buffer_size - 1 THEN 0 ELSE buffer[k]]

\* the zeroing loop at the end of is31fl3741_init
ZeroBuffer(cfg, buffer) ==
    [k \in DOMAIN buffer |-> IF k < cfg.px_buffer_size THEN 0 ELSE buffer[k]]

\* px_buffer, 0xb4 and px_buffer + 0xb4, 0xab: the bytes of the two scaling bursts
ScalingBurstA(buffer) == Slice(buffer, 0, 180)
ScalingBurstB(buffer) == Slice(buffer, 180, SCALING_B_LEN)

\* (config->sws << 4) | (0x01 << 3) | 0x01, passed as uint8_t
ModeValue(cfg) == U8(BitOr(BitOr(Shl(cfg.sws, 4), Shl(1, 3)), 1))

\* variant: off by one, lets capacity + 1 channels through
ChannelsTooMany_OffByOne(cfg, num_channels) == cfg.px_buffer_size + 1 < num_channels

\* the capacity check of is31fl3741_strip_update_channels
ChannelsTooMany(cfg, num_channels) == cfg.px_buffer_size < num_channels

\* length of the first burst of is31fl3741_strip_update_channels
FirstBurstLen(num_channels) ==
    IF num_channels <= IS31FL3741_BUFFER_PAGE_BREAK
    THEN num_channels
    ELSE IS31FL3741_BUFFER_PAGE_BREAK

\* variant: only a failed first burst ends the call, whatever the count
ReturnsAfterFirstBurst_IgnoresCount(result, num_channels) == result # 0

\* variant: < instead of <=, a full first page goes on to the second page
ReturnsAfterFirstBurst_Strict(result, num_channels) ==
    result # 0 \/ num_channels < IS31FL3741_BUFFER_PAGE_BREAK

\* if (result || num_channels <= IS31FL3741_BUFFER_PAGE_BREAK) return result;
ReturnsAfterFirstBurst(result, num_channels) ==
    result # 0 \/ num_channels <= IS31FL3741_BUFFER_PAGE_BREAK

\* the bytes of the first burst: channels, FirstBurstLen(num_channels)
FirstBurst(channels, num_channels) == Slice(channels, 0, FirstBurstLen(num_channels))

\* variant: the second burst starts at channels instead of channels + 0xb4
SecondBurst_NoOffset(channels, num_channels) == Slice(channels, 0, num_channels - 180)

\* the bytes of the second burst: channels + 0xb4, num_channels - 0xb4
SecondBurst(channels, num_channels) == Slice(channels, 180, num_channels - 180)

\* variant: update_rgb hands over only the bytes of the pixels it mapped
NumChannels_MappedBytes == IF call.op = "update_rgb" THEN 3 * call.n ELSE call.n

\* the arguments is31fl3741_strip_update_channels runs with in the current call
NumChannels == IF call.op = "update_rgb" THEN config.px_buffer_size ELSE call.n

Channels ==
    IF call.op = "update_rgb"
    THEN data.px_buffer
    ELSE [k \in 0 .. (call.n - 1) |-> Raw(call.pat, k)]

(***************************************************************************)
(* The controller at the other end of the bus.                             *)
(***************************************************************************)
\* the controller after power-on or after a reset: page register locked,
\* first page selected, every PWM register zero
ChipPowerOn ==
    [tracked |-> TRUE, calls |-> 0, unlocked |-> FALSE, page |-> IS31FL3741_PAGE_PWM_A,
     pwm_a |-> [k \in 0 .. (IS31FL3741_BUFFER_PAGE_BREAK - 1) |-> 0],
     pwm_b |-> [k \in 0 .. (SCALING_B_LEN - 1) |-> 0]]

\* the registers of one page after a write of `bytes` starting at `addr`
ChipWrite(registers, addr, bytes) ==
    [k \in DOMAIN registers |->
        IF k >= addr /\ k - addr < Len(bytes) THEN bytes[k - addr + 1] ELSE registers[k]]

\* the controller after the bus transaction `op`; a failed transaction and a
\* pin operation leave it as it is
ChipStep(c, op) ==
    IF ~c.tracked \/ ~op.ok \/ op.kind \notin {"reg", "burst"} THEN c
    ELSE IF op.kind = "reg" /\ op.addr = IS31FL3741_REG_PSWL
    THEN [c EXCEPT !.unlocked = (op.value = IS31FL3741_PSWL_ENABLE)]
    ELSE IF op.kind = "reg" /\ op.addr = IS31FL3741_REG_PS
    THEN IF c.unlocked THEN [c EXCEPT !.page = op.value, !.unlocked = FALSE] ELSE c
    ELSE LET bytes == IF op.kind = "burst" THEN op.data ELSE <<op.value>>
         IN  IF c.page = IS31FL3741_PAGE_PWM_A
             THEN [c EXCEPT !.pwm_a = ChipWrite(@, op.addr, bytes)]
             ELSE IF c.page = IS31FL3741_PAGE_PWM_B
             THEN [c EXCEPT !.pwm_b = ChipWrite(@, op.addr, bytes)]
             ELSE IF /\ c.page = IS31FL3741_PAGE_FUNCTION /\ op.kind = "reg"
                     /\ op.addr = REG_RESET /\ op.value = RESET_VALUE
             THEN [ChipPowerOn EXCEPT !.calls = c.calls]
             ELSE c

\* one transaction goes out: it is logged and the controller reacts to it
Emit(op) == log' = Append(log, op) /\ chip' = ChipStep(chip, op)

\* a step that issues no transaction
NoEmit == log' = log /\ chip' = chip

\* the entry of a call: the log starts empty; a followed controller is
\* followed through MaxChipCalls calls
StartLog ==
    /\ log' = <<>>
    /\ chip.tracked => chip.calls < MaxChipCalls
    /\ chip' = IF chip.tracked THEN [chip EXCEPT !.calls = @ + 1] ELSE chip

(***************************************************************************)
(* Accesses that stay inside the object they are made on.                  *)
(***************************************************************************)
\* rgb_map[j], rgb_map[j + 1], rgb_map[j + 2] and the three buffer bytes
\* written through them
TripleInBounds(cfg, buffer, j) ==
    \A c \in 0 .. 2 :
        /\ (j + c) \in DOMAIN cfg.rgb_map
        /\ cfg.rgb_map[j + c] \in DOMAIN buffer

\* the accesses of the while loop of is31fl3741_strip_update_rgb
MapPixelsInBounds(cfg, buffer, num_pixels) ==
    \A i \in 0 .. (num_pixels - 1) : TripleInBounds(cfg, buffer, 3 * i)

\* the accesses of the scaling loop of is31fl3741_init
FillScalingInBounds(cfg, buffer) ==
    \A t \in 0 .. (ScalingIterations(cfg) - 1) : TripleInBounds(cfg, buffer, 3 * t)

\* the accesses of the zeroing loop of is31fl3741_init
ZeroBufferInBounds(cfg, buffer) ==
    \A k \in 0 .. (cfg.px_buffer_size - 1) : k \in DOMAIN buffer

\* the bytes a burst write reads: buffer[start .. start + len - 1], len a size_t
SliceInBounds(buffer, start, len) ==
    /\ len >= 0
    /\ \A k \in start .. (start + len - 1) : k \in DOMAIN buffer

Access(in_bounds) == fault' = (fault \/ ~in_bounds)

(***************************************************************************)
(* is31fl3741_set_page: lock write, then page-select write.                *)
(***************************************************************************)
\* variant: the page-select write is issued although the lock write failed
SetPageLock_Continue ==
    /\ pc.phase = "lock"
    /\ \E ok \in BOOLEAN :
         /\ Emit(RegWrite(IS31FL3741_REG_PSWL, IS31FL3741_PSWL_ENABLE, ok))
         /\ spret' = 0 /\ pc' = [pc EXCEPT !.phase = "select"]
    /\ UNCHANGED <<config, ready, data, call, ret, fault>>

SetPageLock ==
    /\ pc.phase = "lock"
    /\ \E ok \in BOOLEAN :
         /\ Emit(RegWrite(IS31FL3741_REG_PSWL, IS31FL3741_PSWL_ENABLE, ok))
         /\ IF IoResult(ok) # 0
            THEN spret' = -EIO /\ pc' = [pc EXCEPT !.phase = "body"]
            ELSE spret' = 0 /\ pc' = [pc EXCEPT !.phase = "select"]
    /\ UNCHANGED <<config, ready, data, call, ret, fault>>

\* variant: a failed page-select write is attempted again until it succeeds
SetPageSelect_Retry ==
    /\ pc.phase = "select"
    /\ \E ok \in BOOLEAN :
         /\ Emit(RegWrite(IS31FL3741_REG_PS, SitePage(pc.site), ok))
         /\ spret' = (IF IoResult(ok) # 0 THEN -EIO ELSE 0)
         /\ pc' = IF ok THEN [pc EXCEPT !.phase = "body"] ELSE pc
    /\ UNCHANGED <<config, ready, data, call, ret, fault>>

SetPageSelect ==
    /\ pc.phase = "select"
    /\ \E ok \in BOOLEAN :
         /\ Emit(RegWrite(IS31FL3741_REG_PS, SitePage(pc.site), ok))
         /\ spret' = (IF IoResult(ok) # 0 THEN -EIO ELSE 0)
         /\ pc' = [pc EXCEPT !.phase = "body"]
    /\ UNCHANGED <<config, ready, data, call, ret, fault>>

(***************************************************************************)
(* is31fl3741_strip_update_channels                                        *)
(***************************************************************************)
\* entry of is31fl3741_strip_update_channels, up to its first bus transaction
UpdateChannelsEntry(num_channels) ==
    IF ChannelsTooMany(config, num_channels)
    THEN Return(-ENOMEM)
    ELSE pc' = At("upd_a", "lock") /\ ret' = 0 /\ spret' = 0

\* variant: update_channels keeps a copy of the caller's bytes in the device buffer
CallUpdateChannels_Copies ==
    /\ pc = Idle
    /\ ready
    /\ \E n \in NumChannelsChoices, pat \in Patterns :
         /\ call' = [op |-> "update_channels", n |-> n, pat |-> pat]
         /\ UpdateChannelsEntry(n)
         /\ data' = [data EXCEPT !.px_buffer =
                        [k \in DOMAIN @ |-> IF k < n THEN Raw(pat, k) ELSE @[k]]]
    /\ StartLog
    /\ UNCHANGED <<config, ready, fault>>

CallUpdateChannels ==
    /\ pc = Idle
    /\ ready
    /\ \E n \in NumChannelsChoices, pat \in Patterns :
         /\ call' = [op |-> "update_channels", n |-> n, pat |-> pat]
         /\ UpdateChannelsEntry(n)
    /\ StartLog
    /\ UNCHANGED <<config, ready, data, fault>>

UpdBurstA ==
    /\ pc = At("upd_a", "body")
    /\ \E ok \in BOOLEAN :
         /\ Emit(BurstWrite(0, FirstBurst(Channels, NumChannels), ok))
         /\ IF ReturnsAfterFirstBurst(IoResult(ok), NumChannels)
            THEN Return(IoResult(ok))
            ELSE pc' = At("upd_b", "lock") /\ ret' = ret /\ spret' = 0
    /\ Access(SliceInBounds(Channels, 0, FirstBurstLen(NumChannels)))
    /\ UNCHANGED <<config, ready, data, call>>

UpdBurstB ==
    /\ pc = At("upd_b", "body")
    /\ \E ok \in BOOLEAN :
         /\ Emit(BurstWrite(0, SecondBurst(Channels, NumChannels), ok))
         /\ Return(IoResult(ok))
    /\ Access(SliceInBounds(Channels, IS31FL3741_BUFFER_PAGE_BREAK,
                            NumChannels - IS31FL3741_BUFFER_PAGE_BREAK))
    /\ UNCHANGED <<config, ready, data, call>>

(***************************************************************************)
(* is31fl3741_strip_update_rgb                                             *)
(***************************************************************************)
CallUpdateRgb ==
    /\ pc = Idle
    /\ ready
    /\ \E n \in NumPixelsChoices, pat \in Patterns :
         /\ call' = [op |-> "update_rgb", n |-> n, pat |-> pat]
         /\ IF ~num_pixels_ok(config, n)
            THEN Return(-ENOMEM) /\ data' = data /\ fault' = fault
            ELSE /\ data' = [data EXCEPT !.px_buffer = MapPixels(config, @, pat, 0, n)]
                 /\ Access(MapPixelsInBounds(config, data.px_buffer, n))
                 /\ UpdateChannelsEntry(config.px_buffer_size)
    /\ StartLog
    /\ UNCHANGED <<config, ready>>

(***************************************************************************)
(* is31fl3741_init                                                         *)
(***************************************************************************)
CallInit ==
    /\ pc = Idle
    /\ \E i2c \in {NULL, "i2c"}, gpio \in {NULL, "gpio"} :
         IF i2c = NULL
         THEN data' = [data EXCEPT !.i2c = NULL] /\ InitReturn(-ENODEV)
         ELSE IF gpio = NULL
         THEN data' = [data EXCEPT !.i2c = i2c, !.gpio = NULL] /\ InitReturn(-ENODEV)
         ELSE /\ data' = [data EXCEPT !.i2c = i2c, !.gpio = gpio]
              /\ pc' = At("init_pin", "configure") /\ ret' = 0 /\ spret' = 0 /\ ready' = FALSE
    /\ call' = [op |-> "init", n |-> 0, pat |-> 0]
    /\ StartLog
    /\ UNCHANGED <<config, fault>>

\* gpio_pin_configure(...): the result is not looked at
InitPinConfigure ==
    /\ pc = At("init_pin", "configure")
    /\ \E ok \in BOOLEAN : Emit(PinOp("pin_configure", ok))
    /\ pc' = At("init_pin", "set")
    /\ UNCHANGED <<config, ready, data, call, spret, ret, fault>>

\* variant: the result of gpio_pin_set is not looked at
InitPinSet_Ignore ==
    /\ pc = At("init_pin", "set")
    /\ \E ok \in BOOLEAN : Emit(PinOp("pin_set", ok))
    /\ pc' = At("init_fn1", "lock") /\ ret' = ret /\ spret' = 0 /\ ready' = ready
    /\ UNCHANGED <<config, data, call, fault>>

\* if (gpio_pin_set(...)) return -EIO; then the first set_page(FUNCTION)
InitPinSet ==
    /\ pc = At("init_pin", "set")
    /\ \E ok \in BOOLEAN :
         /\ Emit(PinOp("pin_set", ok))
         /\ IF ~ok
            THEN InitReturn(-EIO)
            ELSE pc' = At("init_fn1", "lock") /\ ret' = ret /\ spret' = 0 /\ ready' = ready
    /\ UNCHANGED <<config, data, call, fault>>

\* if (set_page(FUNCTION)) return -EIO; reg_write(0x3f, 0xae);
InitReset ==
    /\ pc = At("init_fn1", "body")
    /\ IF spret # 0
       THEN InitReturn(-EIO) /\ NoEmit
       ELSE /\ \E ok \in BOOLEAN : Emit(RegWrite(REG_RESET, RESET_VALUE, ok))
            /\ pc' = At("init_fn2", "lock") /\ ret' = ret /\ spret' = 0 /\ ready' = ready
    /\ UNCHANGED <<config, data, call, fault>>

\* variant: the result of the second set_page(FUNCTION) is not looked at
InitMode_IgnoresSetPage ==
    /\ pc = At("init_fn2", "body")
    /\ \E ok \in BOOLEAN : Emit(RegWrite(REG_MODE, ModeValue(config), ok))
    /\ pc' = At("init_fn2", "gcc") /\ ret' = ret /\ spret' = 0 /\ ready' = ready
    /\ UNCHANGED <<config, data, call, fault>>

\* if (set_page(FUNCTION)) return -EIO; reg_write(0x00, mode);
InitMode ==
    /\ pc = At("init_fn2", "body")
    /\ IF spret # 0
       THEN InitReturn(-EIO) /\ NoEmit
       ELSE /\ \E ok \in BOOLEAN : Emit(RegWrite(REG_MODE, ModeValue(config), ok))
            /\ pc' = At("init_fn2", "gcc") /\ ret' = ret /\ spret' = 0 /\ ready' = ready
    /\ UNCHANGED <<config, data, call, fault>>

\* reg_write(0x01, gcc); the scaling loop; then set_page(SCALING_A)
InitGcc ==
    /\ pc = At("init_fn2", "gcc")
    /\ \E ok \in BOOLEAN : Emit(RegWrite(REG_GCC, config.gcc, ok))
    /\ data' = [data EXCEPT !.px_buffer = FillScaling(config, @, 0, ScalingIterations(config))]
    /\ Access(FillScalingInBounds(config, data.px_buffer))
    /\ pc' = At("init_sc_a", "lock")
    /\ UNCHANGED <<config, ready, call, spret, ret>>

\* reg_burst_write(0x00, px_buffer, 0xb4); then set_page(SCALING_B)
InitBurstA ==
    /\ pc = At("init_sc_a", "body")
    /\ \E ok \in BOOLEAN : Emit(BurstWrite(0, ScalingBurstA(data.px_buffer), ok))
    /\ Access(SliceInBounds(data.px_buffer, 0, IS31FL3741_BUFFER_PAGE_BREAK))
    /\ pc' = At("init_sc_b", "lock")
    /\ spret' = 0
    /\ UNCHANGED <<config, ready, data, call, ret>>

\* reg_burst_write(0x00, px_buffer + 0xb4, 0xab); the zeroing loop; return 0
InitBurstB ==
    /\ pc = At("init_sc_b", "body")
    /\ \E ok \in BOOLEAN : Emit(BurstWrite(0, ScalingBurstB(data.px_buffer), ok))
    /\ Access(/\ SliceInBounds(data.px_buffer, IS31FL3741_BUFFER_PAGE_BREAK, SCALING_B_LEN)
              /\ ZeroBufferInBounds(config, data.px_buffer))
    /\ data' = [data EXCEPT !.px_buffer = ZeroBuffer(config, @)]
    /\ InitReturn(0)
    /\ UNCHANGED <<config, call>>

Next ==
    \/ CallInit
    \/ InitPinConfigure
    \/ InitPinSet
    \/ InitReset
    \/ InitMode
    \/ InitGcc
    \/ InitBurstA
    \/ InitBurstB
    \/ CallUpdateChannels
    \/ CallUpdateRgb
    \/ UpdBurstA
    \/ UpdBurstB
    \/ SetPageLock
    \/ SetPageSelect

Spec == Init /\ [][Next]_vars

\* the same driver with the controller at the other end of the bus followed
InitChip ==
    /\ config \in Configs
    /\ ready = FALSE
    /\ data = [i2c |-> NULL, gpio |-> NULL, px_buffer |-> [k \in Offsets |-> 0]]
    /\ pc = Idle
    /\ call = [op |-> "none", n |-> 0, pat |-> 0]
    /\ spret = 0
    /\ ret = 0
    /\ log = <<>>
    /\ chip = ChipPowerOn
    /\ fault = FALSE

SpecChip == InitChip /\ [][Next]_vars

(***************************************************************************)
(* Vocabulary of the properties.                                           *)
(***************************************************************************)
IsBurst(o) == o.kind = "burst"
IsLockWrite(o) == o.kind = "reg" /\ o.addr = IS31FL3741_REG_PSWL
IsPageWrite(o) == o.kind = "reg" /\ o.addr = IS31FL3741_REG_PS
IsDataWrite(o) == IsBurst(o) \/ (o.kind = "reg" /\ ~IsLockWrite(o) /\ ~IsPageWrite(o))
IsBusWrite(o) == o.kind \in {"reg", "burst"}

Bursts(l) == SelectSeq(l, IsBurst)
DataWrites(l) == SelectSeq(l, IsDataWrite)
AllOk(l) == \A k \in 1 .. Len(l) : l[k].ok
SomeFailed(l) == \E k \in 1 .. Len(l) : ~l[k].ok

\* the last call has returned and was a call of `op`
Returned(op) == pc = Idle /\ call.op = op

\* the offsets update_rgb writes for n pixels
MappedOffsets(n) == {config.rgb_map[j] : j \in 0 .. (3 * n - 1)}

\* the step is the entry of a call of `op` (every step out of Idle is one)
Enters(op) == pc = Idle /\ call'.op = op

(***************************************************************************)
(* C1: for n pixels with 3n <= capacity, update_rgb writes exactly 3n      *)
(* bytes of the device buffer: the bytes at rgb_map[3i], rgb_map[3i+1],    *)
(* rgb_map[3i+2] become gamma[r_i], gamma[g_i], gamma[b_i]; every byte at  *)
(* an offset outside rgb_map[0 .. 3n-1] keeps its value, in the mapping    *)
(* step and in the rest of the call.                                       *)
(***************************************************************************)
C1_MappingStep ==
    (Enters("update_rgb") /\ call'.n <= MaxPixels) =>
        LET n == call'.n
            p == call'.pat
        IN  /\ \A i \in 0 .. (n - 1) :
                  /\ data'.px_buffer[config.rgb_map[3 * i]] = config.gamma[Pixel(p, i).r]
                  /\ data'.px_buffer[config.rgb_map[3 * i + 1]] = config.gamma[Pixel(p, i).g]
                  /\ data'.px_buffer[config.rgb_map[3 * i + 2]] = config.gamma[Pixel(p, i).b]
            /\ Cardinality(MappedOffsets(n)) = 3 * n
            /\ \A k \in Offsets \ MappedOffsets(n) : data'.px_buffer[k] = data.px_buffer[k]

C1_RestOfCall ==
    (pc # Idle /\ call.op = "update_rgb") => data'.px_buffer = data.px_buffer

C1_UpdatePixelsWrites == [][C1_MappingStep /\ C1_RestOfCall]_vars

\* a two-pixel update has returned over a buffer that still holds, at the
\* mapped offsets of pixel 2, the bytes of an earlier full update
C1_Witness ==
    /\ Returned("update_rgb") /\ call.n = 2 /\ call.pat = 1 /\ ret = 0
    /\ config.rgb_map = StrideMap
    /\ data.px_buffer[config.rgb_map[0]] = config.gamma[255]
    /\ data.px_buffer[config.rgb_map[4]] = config.gamma[128]
    /\ data.px_buffer[config.rgb_map[6]] = config.gamma[Pixel(2, 2).r]
    /\ data.px_buffer[config.rgb_map[6]] # 0

(***************************************************************************)
(* C2: for a pixel count n with 3n > capacity, or with 3n overflowing      *)
(* size_t, update_rgb returns -ENOMEM at once: no bus transaction is       *)
(* issued and the device buffer is unchanged.                              *)
(***************************************************************************)
C2_UpdatePixelsCapacity ==
    [][ (Enters("update_rgb") /\ call'.n > MaxPixels) =>
            /\ pc' = Idle
            /\ ret' = -ENOMEM
            /\ log' = <<>>
            /\ data'.px_buffer = data.px_buffer ]_vars

\* the wrapping pixel count was refused over a buffer that is not all zero
C2_Witness ==
    /\ Returned("update_rgb") /\ call.n = WrapPixels
    /\ ret = -ENOMEM /\ log = <<>>
    /\ \E k \in Offsets : data.px_buffer[k] # 0

(***************************************************************************)
(* C3: for count > capacity, update_channels returns -ENOMEM before any    *)
(* bus activity: no lock write, no page-select write, no burst write, so   *)
(* nothing reaches the chip; the driver's state is unchanged as well.      *)
(***************************************************************************)
C3_UpdateChannelsCapacity ==
    [][ (Enters("update_channels") /\ call'.n > IS31FL3741_BUFFER_SIZE) =>
            /\ pc' = Idle
            /\ ret' = -ENOMEM
            /\ log' = <<>>
            /\ data' = data ]_vars

C3_Witness ==
    /\ Returned("update_channels") /\ call.n = IS31FL3741_BUFFER_SIZE + 1
    /\ ret = -ENOMEM /\ log = <<>>

(***************************************************************************)
(* C4: for 0 <= count <= 0xB4, update_channels issues exactly one burst    *)
(* write, the last transaction of the call, at register offset 0, carrying *)
(* the first count bytes of the caller's buffer; the page selection that   *)
(* precedes it names PWM-A, no page-select write names PWM-B, and the call *)
(* returns the result of that burst write.                                 *)
(***************************************************************************)
C4_SingleBurst ==
    (Returned("update_channels") /\ call.n <= IS31FL3741_BUFFER_PAGE_BREAK) =>
        /\ Len(Bursts(log)) = 1
        /\ IsBurst(log[Len(log)])
        /\ LET b == log[Len(log)]
           IN  /\ b.addr = 0
               /\ b.data = [k \in 1 .. call.n |-> Raw(call.pat, k - 1)]
               /\ ret = (IF b.ok THEN 0 ELSE -EIO)
        /\ IsLockWrite(log[1])
        /\ \A k \in 1 .. Len(log) :
               IsPageWrite(log[k]) => log[k].value = IS31FL3741_PAGE_PWM_A
        /\ Len(log) <= 3

\* the boundary count 0xB4, with every transaction succeeding
C4_Witness ==
    /\ Returned("update_channels") /\ call.n = IS31FL3741_BUFFER_PAGE_BREAK
    /\ ret = 0 /\ Len(log) = 3 /\ AllOk(log)
    /\ Len(log[3].data) = IS31FL3741_BUFFER_PAGE_BREAK

(***************************************************************************)
(* C5: for 0xB4 < count <= capacity, when every bus write of the call      *)
(* succeeds, update_channels issues exactly: select PWM-A, burst of the    *)
(* buffer bytes [0, 0xB4) at offset 0, select PWM-B, burst of the buffer   *)
(* bytes [0xB4, count) at offset 0; the two bursts together carry each of  *)
(* the count bytes once.  (update_rgb runs update_channels on the device   *)
(* buffer with count = capacity.)                                          *)
(***************************************************************************)
\* the buffer and the count update_channels ran with in the returned call
SubmittedCount ==
    IF call.op = "update_channels" THEN call.n
    ELSE IF call.op = "update_rgb" /\ call.n <= MaxPixels THEN IS31FL3741_BUFFER_SIZE
    ELSE 0

Submitted(k) == IF call.op = "update_rgb" THEN data.px_buffer[k] ELSE Raw(call.pat, k)

C5_TwoBursts ==
    ( /\ pc = Idle
      /\ SubmittedCount > IS31FL3741_BUFFER_PAGE_BREAK
      /\ SubmittedCount <= IS31FL3741_BUFFER_SIZE
      /\ AllOk(log) ) =>
        /\ Len(log) = 6
        /\ IsLockWrite(log[1]) /\ log[1].value = IS31FL3741_PSWL_ENABLE
        /\ IsPageWrite(log[2]) /\ log[2].value = IS31FL3741_PAGE_PWM_A
        /\ IsBurst(log[3]) /\ log[3].addr = 0
        /\ log[3].data = [k \in 1 .. 180 |-> Submitted(k - 1)]
        /\ IsLockWrite(log[4]) /\ log[4].value = IS31FL3741_PSWL_ENABLE
        /\ IsPageWrite(log[5]) /\ log[5].value = IS31FL3741_PAGE_PWM_B
        /\ IsBurst(log[6]) /\ log[6].addr = 0
        /\ log[6].data = [k \in 1 .. (SubmittedCount - 180) |-> Submitted(180 + k - 1)]
        /\ log[3].data \o log[6].data = [k \in 1 .. SubmittedCount |-> Submitted(k - 1)]
        /\ ret = 0

\* count = 0xB4 + 1: the second burst carries the single byte at offset 0xB4
C5_Witness ==
    /\ Returned("update_channels") /\ call.n = IS31FL3741_BUFFER_PAGE_BREAK + 1
    /\ AllOk(log) /\ Len(log) = 6 /\ ret = 0
    /\ log[6].data = <<Raw(call.pat, 180)>>

(***************************************************************************)
(* C6: in update_channels any bus failure surfaces immediately: if a bus   *)
(* write of the call fails (lock write, page-select write or burst write), *)
(* the call returns -EIO and the failed write is the last one of the call; *)
(* in particular no burst follows a failed page selection.                 *)
(***************************************************************************)
C6_FailureSurfaces ==
    (Returned("update_channels") /\ SomeFailed(log)) =>
        /\ ret = -EIO
        /\ \A k \in 1 .. Len(log) : ~log[k].ok => k = Len(log)

(***************************************************************************)
(* C7: in init every step's failure is fatal: if a pin operation or a bus  *)
(* write of the call fails, init returns an error and the failed operation *)
(* is the last one of the call; init returns 0 only if every pin and bus   *)
(* operation of the call succeeded.                                        *)
(***************************************************************************)
C7_InitAbortsOnFailure ==
    Returned("init") =>
        /\ SomeFailed(log) =>
              /\ ret # 0
              /\ \A k \in 1 .. Len(log) : ~log[k].ok => k = Len(log)
        /\ ret = 0 => AllOk(log)

(***************************************************************************)
(* C8: an init call that returns 0 has issued exactly these data writes,   *)
(* in this order: reset register (0x3f <- 0xae), operating mode (0x00),    *)
(* current gain (0x01), a burst of 0xB4 bytes, a burst of capacity - 0xB4  *)
(* = 171 bytes, each burst at offset 0 (with every transaction succeeding, *)
(* the pages selected are Function, Function, Scaling-A, Scaling-B); and   *)
(* on return every byte of the device buffer is zero.                      *)
(***************************************************************************)
C8_InitOrderAndZero ==
    (Returned("init") /\ ret = 0) =>
        LET d == DataWrites(log)
        IN  /\ Len(d) = 5
            /\ d[1].kind = "reg" /\ d[1].addr = 63 /\ d[1].value = 174
            /\ d[2].kind = "reg" /\ d[2].addr = 0
            /\ d[3].kind = "reg" /\ d[3].addr = 1 /\ d[3].value = config.gcc
            /\ IsBurst(d[4]) /\ d[4].addr = 0 /\ Len(d[4].data) = 180
            /\ IsBurst(d[5]) /\ d[5].addr = 0
            /\ Len(d[5].data) = IS31FL3741_BUFFER_SIZE - 180
            /\ Len(d[5].data) = 171
            /\ AllOk(log) =>
                  SelectSeq(log, IsPageWrite) =
                      << RegWrite(253, 4, TRUE), RegWrite(253, 4, TRUE),
                         RegWrite(253, 2, TRUE), RegWrite(253, 3, TRUE) >>
            /\ \A k \in Offsets : data.px_buffer[k] = 0

\* init has run to its end with every transaction succeeding; the scaling
\* bursts carried the (non-zero) scaling bytes and the buffer is zero again
C8_Witness ==
    /\ Returned("init") /\ ret = 0 /\ AllOk(log) /\ Len(log) = 15
    /\ \E k \in 1 .. 180 : DataWrites(log)[4].data[k] # 0
    /\ \A k \in Offsets : data.px_buffer[k] = 0

(***************************************************************************)
(* C9: every burst write and every function-register write group (the      *)
(* reset write; the mode write, which the gain write follows) is directly  *)
(* preceded, within its call, by the two writes of a page selection: the   *)
(* lock-key write and then the page-index write.                           *)
(***************************************************************************)
StartsWriteGroup(l, k) ==
    \/ IsBurst(l[k])
    \/ l[k].kind = "reg" /\ l[k].addr = REG_RESET
    \/ l[k].kind = "reg" /\ l[k].addr = REG_MODE

C9_PageSelectedBeforeWrite ==
    \A k \in 1 .. Len(log) :
        StartsWriteGroup(log, k) =>
            /\ k >= 3
            /\ IsLockWrite(log[k - 2]) /\ log[k - 2].value = IS31FL3741_PSWL_ENABLE
            /\ IsPageWrite(log[k - 1])

(***************************************************************************)
(* C10: set_page(page) issues at most two register writes: the key 0xC5 to *)
(* register 0xFE, then, only if that write succeeded, the page index to    *)
(* register 0xFD.  It returns 0 only if both writes succeeded and -EIO if  *)
(* the lock write failed (without a page-select write) or the page-select  *)
(* write failed.                                                           *)
(***************************************************************************)
C10_SetPage ==
    /\ \A k \in 1 .. Len(log) :
           /\ IsLockWrite(log[k]) => log[k].value = 197
           /\ IsPageWrite(log[k]) => k > 1 /\ IsLockWrite(log[k - 1]) /\ log[k - 1].ok
           /\ (IsLockWrite(log[k]) /\ k < Len(log)) => (log[k].ok <=> IsPageWrite(log[k + 1]))
    /\ pc.phase = "select" => IsLockWrite(log[Len(log)]) /\ log[Len(log)].ok
    /\ (pc.site \in SetPageSites /\ pc.phase = "body") =>
           LET n == Len(log)
           IN  \/ /\ spret = 0
                  /\ n >= 2
                  /\ log[n - 1].addr = 254 /\ log[n - 1].kind = "reg" /\ log[n - 1].ok
                  /\ log[n].addr = 253 /\ log[n].kind = "reg" /\ log[n].ok
                  /\ log[n].value = SitePage(pc.site)
               \/ /\ spret = -EIO
                  /\ log[n].addr = 254 /\ log[n].kind = "reg" /\ ~log[n].ok
               \/ /\ spret = -EIO
                  /\ n >= 2
                  /\ log[n - 1].addr = 254 /\ log[n - 1].kind = "reg" /\ log[n - 1].ok
                  /\ log[n].addr = 253 /\ log[n].kind = "reg" /\ ~log[n].ok
                  /\ log[n].value = SitePage(pc.site)

\* set_page(PWM_B) has just returned -EIO because its lock write failed
C10_Witness ==
    /\ pc = At("upd_b", "body") /\ spret = -EIO
    /\ IsLockWrite(log[Len(log)]) /\ ~log[Len(log)].ok
    /\ Len(log) = 4

(***************************************************************************)
(* C12: init returns -ENODEV, with no pin operation and no bus write       *)
(* issued, when the bus handle or the pin-control handle is not resolved;  *)
(* it returns -EIO, with no bus write issued, when driving the chip-enable *)
(* pin to its active level fails.                                          *)
(***************************************************************************)
PinSetFailed(l) == \E k \in 1 .. Len(l) : l[k].kind = "pin_set" /\ ~l[k].ok

C12_InitEarlyFailures ==
    Returned("init") =>
        /\ (data.i2c = NULL \/ data.gpio = NULL) => (ret = -ENODEV /\ log = <<>>)
        /\ ret = -ENODEV => (data.i2c = NULL \/ data.gpio = NULL)
        /\ PinSetFailed(log) =>
              /\ ret = -EIO
              /\ \A k \in 1 .. Len(log) : ~IsBusWrite(log[k])
              /\ log[Len(log)].kind = "pin_set"

\* the pin was configured, driving it failed, and init returned -EIO
C12_Witness ==
    /\ Returned("init") /\ ret = -EIO
    /\ Len(log) = 2 /\ log[1].kind = "pin_configure"
    /\ log[2].kind = "pin_set" /\ ~log[2].ok
    /\ data.i2c # NULL /\ data.gpio # NULL

(***************************************************************************)
(* C13: for every pixel count n with 3n <= capacity, update_rgb hands the  *)
(* whole device buffer to update_channels with count = capacity, whatever  *)
(* n is: when the bus writes succeed the bus sees exactly one burst of 180 *)
(* bytes (buffer bytes 0..179) after the selection of PWM-A, then one      *)
(* burst of 171 bytes (buffer bytes 180..350) after the selection of       *)
(* PWM-B, and the bytes are the buffer contents after the mapping (with    *)
(* the identity map, the identity lookup and 117 pixels (255, 128, 0):     *)
(* 255, 128, 0 repeated 117 times).                                        *)
(***************************************************************************)
C13_WholeBufferSent ==
    (Returned("update_rgb") /\ call.n <= MaxPixels /\ AllOk(log)) =>
        LET b == Bursts(log)
        IN  /\ Len(b) = 2
            /\ Len(log) = 6 /\ IsBurst(log[3]) /\ IsBurst(log[6])
            /\ IsPageWrite(log[2]) /\ log[2].value = IS31FL3741_PAGE_PWM_A
            /\ IsPageWrite(log[5]) /\ log[5].value = IS31FL3741_PAGE_PWM_B
            /\ Len(b[1].data) = 180
            /\ \A k \in 0 .. 179 : b[1].data[k + 1] = data.px_buffer[k]
            /\ Len(b[2].data) = 171
            /\ \A k \in 180 .. 350 : b[2].data[k - 180 + 1] = data.px_buffer[k]
            /\ ( /\ config.rgb_map = IdentityMap /\ config.gamma = IdentityGamma
                 /\ call.n = 117 /\ call.pat = 1 ) =>
                   b[1].data \o b[2].data =
                       [k \in 1 .. 351 |-> <<255, 128, 0>>[((k - 1) % 3) + 1]]

\* two pixels were submitted over a zero buffer with the stride map, and
\* the bus still saw the whole buffer, 180 + 171 bytes
C13_Witness ==
    /\ Returned("update_rgb") /\ call.n = 2 /\ call.pat = 1 /\ AllOk(log) /\ ret = 0
    /\ config.rgb_map = StrideMap
    /\ Len(Bursts(log)) = 2
    /\ Len(Bursts(log)[1].data) + Len(Bursts(log)[2].data) = IS31FL3741_BUFFER_SIZE
    /\ Bursts(log)[1].data[5 + 1] = config.gamma[255]
    /\ Cardinality({k \in Offsets : data.px_buffer[k] # 0}) <= 6

C14_ReturnOfUpdateRgb ==
    (pc # Idle /\ pc' = Idle /\ call.op = "update_rgb" /\ ret' = 0) =>
        LET b == Bursts(log')
        IN  /\ Len(b) = 2
            /\ b[1].data = [k \in 1 .. 180 |-> data'.px_buffer[k - 1]]
            /\ b[2].data = [k \in 1 .. 171 |-> data'.px_buffer[180 + k - 1]]

C14_UpdateChannelsKeepsBuffer ==
    call'.op = "update_channels" => data' = data

Min(S) == CHOOSE x \in S : \A y \in S : x <= y

BusWrites(l) == {k \in 1 .. Len(l) : IsBusWrite(l[k])}
LockWrites(l) == {k \in 1 .. Len(l) : IsLockWrite(l[k])}
PageWrites(l, page) == {k \in 1 .. Len(l) : IsPageWrite(l[k]) /\ l[k].value = page}
BurstWrites(l) == {k \in 1 .. Len(l) : IsBurst(l[k])}
RegWritesAt(l, addr) == {k \in 1 .. Len(l) : l[k].kind = "reg" /\ l[k].addr = addr}

C15_NoRetry ==
    /\ \A k \in 1 .. (Len(log) - 1) : ~log[k].ok => log[k + 1] # [log[k] EXCEPT !.ok = log[k + 1].ok]
    /\ call.op \in {"update_channels", "update_rgb"} =>
           /\ Cardinality(BusWrites(log)) <= 6
           /\ Cardinality(LockWrites(log)) <= 2
           /\ Cardinality(PageWrites(log, IS31FL3741_PAGE_PWM_A)) <= 1
           /\ Cardinality(PageWrites(log, IS31FL3741_PAGE_PWM_B)) <= 1
           /\ Cardinality(BurstWrites(log)) <= 2
           /\ BusWrites(log) = LockWrites(log) \cup BurstWrites(log)
                  \cup PageWrites(log, IS31FL3741_PAGE_PWM_A)
                  \cup PageWrites(log, IS31FL3741_PAGE_PWM_B)
    /\ call.op = "init" =>
           /\ Cardinality(BusWrites(log)) <= 13
           /\ Cardinality(LockWrites(log)) <= 4
           /\ Cardinality(PageWrites(log, IS31FL3741_PAGE_FUNCTION)) <= 2
           /\ Cardinality(PageWrites(log, IS31FL3741_PAGE_SCALING_A)) <= 1
           /\ Cardinality(PageWrites(log, IS31FL3741_PAGE_SCALING_B)) <= 1
           /\ Cardinality(RegWritesAt(log, REG_RESET)) <= 1
           /\ Cardinality(RegWritesAt(log, REG_MODE)) <= 1
           /\ Cardinality(RegWritesAt(log, REG_GCC)) <= 1
           /\ Cardinality(BurstWrites(log)) <= 2
           /\ \A k \in 1 .. Len(log) :
                  IsPageWrite(log[k]) =>
                      log[k].value \in {IS31FL3741_PAGE_FUNCTION, IS31FL3741_PAGE_SCALING_A,
                                        IS31FL3741_PAGE_SCALING_B}

\* an init call whose reset write and both scaling lock writes failed has
\* run to its end with 11 bus transactions, none of them repeated
C15_Witness ==
    /\ Returned("init") /\ ret = 0
    /\ Cardinality(BusWrites(log)) = 11
    /\ ~log[Min(RegWritesAt(log, REG_RESET))].ok
    /\ Cardinality({k \in BusWrites(log) : ~log[k].ok}) = 3
    /\ Cardinality(LockWrites(log)) = 4
    /\ Cardinality(BurstWrites(log)) = 2

(***************************************************************************)
(* C16: the gain is (r_ext * led_max_current * 65536) / (383 * 255) in     *)
(* integer arithmetic with truncating division; r_ext = 1 and              *)
(* led_max_current = 5 give 3; and the value written to the 8-bit gain     *)
(* register (0x01) is the result of that formula for every configured      *)
(* r_ext and led_max_current.                                              *)
(***************************************************************************)
C16_GainProgrammed ==
    /\ IS31FL3741_GCC(1, 5) = 3
    /\ IS31FL3741_GCC(1, 5) = (1 * 5 * 65536) \div (383 * 255)
    /\ \A k \in 1 .. Len(log) :
           (call.op = "init" /\ log[k].kind = "reg" /\ log[k].addr = REG_GCC) =>
               log[k].value = IS31FL3741_GCC(config.r_ext, config.led_max_current)

(***************************************************************************)
(* C17: with a channel-index map that is a permutation of [0, capacity),   *)
(* the two scaling bursts of init carry the scaling values distributed     *)
(* through the map: for every k in [0, capacity / 3) the byte for offset   *)
(* rgb_map[3k] is scaling_red, for rgb_map[3k + 1] scaling_green and for   *)
(* rgb_map[3k + 2] scaling_blue, where the first burst (after the          *)
(* selection of Scaling-A) carries the offsets [0, 0xB4) and the second    *)
(* (after the selection of Scaling-B) the offsets [0xB4, capacity): every  *)
(* mapped offset is carried exactly once.                                  *)
(***************************************************************************)
IsPermutation(map) ==
    /\ DOMAIN map = Offsets
    /\ {map[j] : j \in Offsets} = Offsets

\* the byte the bursts b[1], b[2] carry for buffer offset o
BurstByte(b, o) ==
    IF o < IS31FL3741_BUFFER_PAGE_BREAK
    THEN b[1].data[o + 1]
    ELSE b[2].data[o - IS31FL3741_BUFFER_PAGE_BREAK + 1]

C17_ScalingBursts ==
    (Returned("init") /\ ret = 0 /\ IsPermutation(config.rgb_map)) =>
        LET b == Bursts(log)
        IN  /\ Len(b) = 2
            /\ Len(b[1].data) = 180
            /\ Len(b[2].data) = IS31FL3741_BUFFER_SIZE - 180
            /\ b[1].addr = 0 /\ b[2].addr = 0
            /\ \A k \in 0 .. ((IS31FL3741_BUFFER_SIZE \div 3) - 1) :
                   /\ BurstByte(b, config.rgb_map[3 * k]) = config.scaling_red
                   /\ BurstByte(b, config.rgb_map[3 * k + 1]) = config.scaling_green
                   /\ BurstByte(b, config.rgb_map[3 * k + 2]) = config.scaling_blue
            /\ AllOk(log) =>
                   /\ IsPageWrite(log[Len(log) - 4])
                   /\ log[Len(log) - 4].value = IS31FL3741_PAGE_SCALING_A
                   /\ IsBurst(log[Len(log) - 3])
                   /\ IsPageWrite(log[Len(log) - 1])
                   /\ log[Len(log) - 1].value = IS31FL3741_PAGE_SCALING_B
                   /\ IsBurst(log[Len(log)])

\* init has run to its end with the stride map: the red scaling value of
\* pixel 0 went out at offset 5, the blue one of pixel 116 at offset 349
C17_Witness ==
    /\ Returned("init") /\ ret = 0 /\ AllOk(log)
    /\ config.rgb_map = StrideMap /\ config.rgb_map[0] = 5 /\ config.rgb_map[350] = 349
    /\ Bursts(log)[1].data[5 + 1] = 255
    /\ Bursts(log)[2].data[349 - 180 + 1] = 60
    /\ config.scaling_red = 255 /\ config.scaling_blue = 60

(***************************************************************************)
(* C18: scaling values never reach the PWM pages.  Whenever init has       *)
(* returned, with success or with an error, the device buffer holds no     *)
(* scaling byte: each byte is 0 or gamma[v] for an intensity v submitted   *)
(* for its channel in an update_rgb call; and every byte a burst of an     *)
(* update_rgb call sends is 0 or such a gamma[v].                          *)
(***************************************************************************)
\* the intensity pixel px carries for colour c (0 red, 1 green, 2 blue)
Intensity(px, c) == IF c = 0 THEN px.r ELSE IF c = 1 THEN px.g ELSE px.b

\* the values update_rgb calls can have left at offset rgb_map[j], and 0
PwmValues(j) ==
    {0} \cup {config.gamma[Intensity(Pixel(p, j \div 3), j % 3)] : p \in Patterns}

C18_NoScalingInPwm ==
    /\ pc = Idle =>
           \A j \in Offsets : data.px_buffer[config.rgb_map[j]] \in PwmValues(j)
    /\ call.op = "update_rgb" =>
           LET b == Bursts(log)
           IN  \A j \in Offsets :
                   LET o == config.rgb_map[j]
                   IN  /\ (Len(b) >= 1 /\ o < 180) => b[1].data[o + 1] \in PwmValues(j)
                       /\ (Len(b) >= 2 /\ o >= 180) => b[2].data[o - 180 + 1] \in PwmValues(j)

\* the first update after an init that sent non-zero scaling bytes: no
\* pixel is submitted, and both bursts carry zeros only
C18_Witness ==
    /\ Returned("update_rgb") /\ call.n = 0 /\ AllOk(log) /\ Len(Bursts(log)) = 2
    /\ config.scaling_red # 0 /\ config.scaling_green # 0 /\ config.scaling_blue # 0
    /\ \A k \in 1 .. 180 : Bursts(log)[1].data[k] = 0
    /\ \A k \in 1 .. 171 : Bursts(log)[2].data[k] = 0

(***************************************************************************)
(* C19: in init page Function is selected twice: before the reset write,   *)
(* and again, by a complete lock-then-select sequence, after the reset     *)
(* write and before the mode write.  The mode write and the gain write are *)
(* issued only if that second selection succeeded, and the mode value is   *)
(* (sws << 4) | 0x08 | 0x01.                                               *)
(***************************************************************************)
IsRegWrite(o, addr) == o.kind = "reg" /\ o.addr = addr

\* l[k - 1], l[k] are a successful selection of page Function
FunctionSelectedAt(l, k) ==
    /\ k >= 2
    /\ IsLockWrite(l[k - 1]) /\ l[k - 1].value = IS31FL3741_PSWL_ENABLE /\ l[k - 1].ok
    /\ IsPageWrite(l[k]) /\ l[k].value = IS31FL3741_PAGE_FUNCTION /\ l[k].ok

C19_FunctionSelectedTwice ==
    call.op = "init" =>
        \A k \in 1 .. Len(log) :
            /\ IsRegWrite(log[k], REG_RESET) =>
                   /\ FunctionSelectedAt(log, k - 1)
                   /\ log[k].value = 174
            /\ IsRegWrite(log[k], REG_MODE) =>
                   /\ FunctionSelectedAt(log, k - 1)
                   /\ k >= 6 /\ IsRegWrite(log[k - 3], REG_RESET)
                   /\ FunctionSelectedAt(log, k - 4)
                   /\ log[k].value = ((config.sws * 16) % 256) + 8 + 1
                   /\ log[k].value = BitOr(BitOr((config.sws * 16) % 256, 8), 1)
            /\ IsRegWrite(log[k], REG_GCC) =>
                   k >= 2 /\ IsRegWrite(log[k - 1], REG_MODE)

\* the mode write has just gone out, after a reset write that failed and a
\* second selection of page Function that succeeded
C19_Witness ==
    /\ pc = At("init_fn2", "gcc") /\ Len(log) = 8
    /\ IsRegWrite(log[5], REG_RESET) /\ ~log[5].ok
    /\ FunctionSelectedAt(log, 4) /\ FunctionSelectedAt(log, 7)
    /\ IsRegWrite(log[8], REG_MODE) /\ log[8].value = 41 /\ config.sws = 2

(***************************************************************************)
(* C20: with capacity 351, a channel-index map of 351 entries in           *)
(* [0, capacity) and caller arrays as long as the count passed, every      *)
(* access of init, update_rgb and update_channels stays in bounds: each    *)
(* index into the map is below 351, each buffer offset written is in       *)
(* [0, capacity), each burst reads inside the buffer (or inside the        *)
(* caller's array), and count - 0xB4 is never negative.                    *)
(***************************************************************************)
C20_MemoryBounds ==
    /\ fault = FALSE
    /\ DOMAIN config.rgb_map = 0 .. 350
    /\ \A j \in DOMAIN config.rgb_map : config.rgb_map[j] \in 0 .. (config.px_buffer_size - 1)
    /\ pc.site = "upd_b" => NumChannels - 180 > 0
    /\ \A k \in 1 .. Len(log) :
           (IsBurst(log[k]) /\ call.op \in {"update_rgb", "init"}) =>
               Len(log[k].data) <= config.px_buffer_size
    /\ \A k \in 1 .. Len(log) :
           (IsBurst(log[k]) /\ call.op = "update_channels") => Len(log[k].data) <= call.n

\* a raw update of all 351 channels has returned after a pixel update that
\* used the last entry of the map, and no access has left its object
C20_Witness ==
    /\ Returned("update_channels") /\ call.n = IS31FL3741_BUFFER_SIZE
    /\ Len(Bursts(log)) = 2 /\ Len(Bursts(log)[2].data) = 171
    /\ data.px_buffer[config.rgb_map[350]] # 0
    /\ fault = FALSE

(***************************************************************************)
(* C11 (checked under SpecChip, where the controller's selected page and   *)
(* its PWM pages are followed): when update_channels runs with a count     *)
(* above 0xB4, stage 1 (select PWM-A, burst) succeeds and a bus write of   *)
(* stage 2 fails, the call returns -EIO, page PWM-A of the controller      *)
(* holds the new bytes [0, 0xB4) and page PWM-B holds what it held before  *)
(* the call.                                                               *)
(***************************************************************************)
Stage1Succeeded(l) ==
    /\ Len(l) >= 3
    /\ IsLockWrite(l[1]) /\ l[1].ok
    /\ IsPageWrite(l[2]) /\ l[2].ok
    /\ IsBurst(l[3]) /\ l[3].ok

Stage2Failed(l) == \E k \in 4 .. Len(l) : ~l[k].ok

InUpdate == call.op \in {"update_channels", "update_rgb"} /\ pc # Idle

\* the return of a call whose stage 1 succeeded and whose stage 2 failed
C11_Return ==
    (InUpdate /\ pc' = Idle /\ Stage1Succeeded(log') /\ Stage2Failed(log')) =>
        /\ ret' = -EIO
        /\ chip'.pwm_a = [k \in 0 .. 179 |-> Submitted(k)]
        /\ chip'.pwm_b = chip.pwm_b

\* up to that return, a call whose stage 1 succeeds leaves page PWM-B alone
C11_BeforeReturn ==
    (InUpdate /\ pc' # Idle /\ (pc.site = "upd_b" \/ Stage1Succeeded(log'))) =>
        chip'.pwm_b = chip.pwm_b

C11_PartialUpdate == [][C11_Return /\ C11_BeforeReturn]_vars

====
